---- MODULE Spec2Model ----
(***************************************************************************)
(* Tenant authorization model of the organization / membership protocol:   *)
(* the server functions of src/lib/server/organizations.ts running against *)
(* the PostgreSQL schema, row-level-security policies and RPC functions of  *)
(* supabase/migrations.                                                     *)
(*                                                                         *)
(* Every `await supabase...` of a handler is one statement in its own       *)
(* transaction and is one action here; an RPC function is one transaction   *)
(* whose row locks are held until it commits or aborts.                     *)
(***************************************************************************)
EXTENDS Naturals, FiniteSets, TLC

\* ------------------------------------------------------------------ domains
Users == {"A", "B", "C"}
OrgIds == {"o1", "o2"}
Slugs == {"acme", "beta"}
Slots == {"s1", "s2"}
TodoIds == {"t1", "t2"}

organization_role == {"owner", "admin", "member"}

None == "none"        \* no membership row
NoOrg == "noorg"      \* no organization row / no organization argument
NoUser == "nouser"    \* a membership id that resolves to no row
Null == "null"        \* SQL NULL in user_profiles.current_organization_id
NoRow == "norow"      \* no user_profiles row
NoTodo == [organization_id |-> NoOrg, user_id |-> NoUser, is_complete |-> FALSE]  \* no todos row

\* error taxonomy: the messages thrown by the handlers
Ok == "ok"
Pending == "pending"
MemberNotFound == "MemberNotFound"                \* "Member not found"
NotAMember == "NotAMember"                        \* "You are not a member of this organization"
NotAuthorized == "NotAuthorized"                  \* "You don't have permission ..." / "Only ..."
CannotRemoveOwner == "CannotRemoveOwner"          \* "Cannot remove the organization owner"
MustTransferOwnership == "MustTransferOwnership"  \* "You must transfer ownership before leaving ..."
AlreadyMember == "AlreadyMember"                  \* "User is already a member of this organization"
PrincipalNotFound == "PrincipalNotFound"          \* "User not found. They must sign up ..."
SlugConflict == "SlugConflict"                    \* "An organization with this slug already exists"
InternalError == "InternalError"                  \* "Failed to ...: <store message>"
DeadlockDetected == "DeadlockDetected"            \* "Failed to ...: deadlock detected"
FeatureNotSupported == "FeatureNotSupported"      \* "Failed to ...: FOR UPDATE is not allowed ..."
NotFound == "NotFound"                            \* PGRST116: the handler returns null
SqlTrue == "true"                                 \* a boolean an SQL function returns
SqlFalse == "false"

VARIABLES
  orgSlug,   \* organizations: id -> slug, NoOrg when the row does not exist
  usedIds,   \* organization ids gen_random_uuid() has handed out (never reused)
  role,      \* organization_members: org -> user -> role, None when no row
  profile,   \* user_profiles: user -> current_organization_id, Null, or NoRow
  req,       \* per session slot: the request in flight and its local variables
  todos,     \* todos: id -> [organization_id, user_id, is_complete], NoTodo when no row
  seedApplied  \* whether supabase/seed.sql has been run on this database

vars == <<orgSlug, usedIds, role, profile, req, todos, seedApplied>>

\* ------------------------------------------------------------------ requests
IdleReq ==
  [op |-> "idle", pc |-> "idle", caller |-> NoUser, org |-> NoOrg, user |-> NoUser,
   newRole |-> None, tRole |-> None, slug |-> "", locks |-> {}, cur |-> Null,
   todo |-> "", rows |-> {}, result |-> Pending]

NewReq(o, p) == [IdleReq EXCEPT !.op = o, !.caller = p]

Done(r, res) == [r EXCEPT !.pc = "done", !.result = res, !.locks = {}]

\* rows(o): the principals holding a membership row in o
MemberRows(o) == {u \in Users : role[o][u] # None}

OwnerRows(o) == {u \in Users : role[o][u] = "owner"}

\* row (o, u) of organization_members is locked FOR UPDATE by a transaction other than s's
LockedByOther(s, o, u) ==
  \E t \in Slots \ {s} : req[t].op = "leave" /\ req[t].org = o /\ u \in req[t].locks

\* A membership id names one row for ever: once row (o, u) is deleted, requests that
\* hold its id hold an id that resolves to nothing, also if (o, u) is inserted anew.
ForgetRows(rq, o, gone) ==
  [t \in Slots |->
     IF rq[t].op \in {"updateRole", "remove"} /\ rq[t].org = o /\ rq[t].user \in gone
       THEN [rq[t] EXCEPT !.user = NoUser]
       ELSE rq[t]]

\* ------------------------------------------------------------------ predicates (SQL)
is_organization_member(p, o) == o \in OrgIds /\ role[o][p] # None

is_organization_admin(p, o) == o \in OrgIds /\ role[o][p] \in {"owner", "admin"}

is_organization_owner(p, o) == o \in OrgIds /\ role[o][p] = "owner"

\* mutant of has_organization_role: an admin does not have the member permission
has_organization_role_Exact(p, o, required_role) ==
  /\ o \in OrgIds /\ role[o][p] # None
  /\ (role[o][p] = required_role \/ role[o][p] = "owner")

\* has_organization_role(org_id, required_role)
has_organization_role(p, o, required_role) ==
  /\ o \in OrgIds /\ role[o][p] # None
  /\ \/ role[o][p] = required_role
     \/ role[o][p] = "owner"
     \/ (role[o][p] = "admin" /\ required_role = "member")

\* get_current_organization_id(): the values COALESCE(profile pointer, the organization
\* of one of the principal's membership rows) can return; LIMIT 1 without ORDER BY
\* picks any of the rows, and no row at all gives NULL
get_current_organization_id(p) ==
  IF profile[p] \notin {NoRow, Null} THEN {profile[p]}
  ELSE IF {o \in OrgIds : role[o][p] # None} # {} THEN {o \in OrgIds : role[o][p] # None}
  ELSE {Null}

\* ------------------------------------------------------------------ RLS policies
\* "Members can view organization members" (FOR SELECT)
MembersSelectPolicy(p, o) == is_organization_member(p, o)

\* "Members can be removed appropriately" (FOR DELETE), row = (o, u, rowRole)
MembersDeletePolicy(p, o, u, rowRole) ==
  \/ u = p
  \/ (is_organization_admin(p, o) /\ rowRole = "member")
  \/ (is_organization_owner(p, o) /\ u # p)

\* ------------------------------------------------------------------ initial states
\* membership rows of a seeded organization: any rows that include an owner
SeedRoles ==
  {f \in [Users -> organization_role \cup {None}] : \E u \in Users : f[u] = "owner"}

NoRows == [u \in Users |-> None]

NoTodos == [t \in TodoIds |-> NoTodo]

\* The empty store, one organization id still to be handed out.
InitEmpty ==
  /\ orgSlug = [o \in OrgIds |-> NoOrg]
  /\ usedIds = {"o2"}
  /\ role = [o \in OrgIds |-> NoRows]
  /\ profile = [u \in Users |-> NoRow]
  /\ req = [s \in Slots |-> IdleReq]
  /\ todos = NoTodos
  /\ seedApplied \in BOOLEAN

\* A populated store: organization o1 ("acme") with membership rows that include an
\* owner; every principal has a profile row, a member's pointing at o1 or at nothing.
InitSeeded ==
  /\ orgSlug = [o \in OrgIds |-> IF o = "o1" THEN "acme" ELSE NoOrg]
  /\ usedIds = OrgIds
  /\ \E f \in SeedRoles : role = [o \in OrgIds |-> IF o = "o1" THEN f ELSE NoRows]
  /\ profile \in [Users -> {"o1", Null}]
  /\ \A u \in Users : role["o1"][u] = None => profile[u] = Null
  /\ req = [s \in Slots |-> IdleReq]
  /\ todos = NoTodos
  /\ seedApplied \in BOOLEAN

Init == InitEmpty \/ InitSeeded

\* ------------------------------------------------------------------ removeMember
\* organizations.ts 613-622: fetch the target row by id (RLS SELECT applies)
RemoveMemberFetchTarget(s, p, o, u) ==
  /\ req[s].op = "idle"
  /\ LET found == u # NoUser /\ role[o][u] # None /\ MembersSelectPolicy(p, o)
         r == [NewReq("remove", p) EXCEPT !.org = o, !.user = u]
     IN req' = [req EXCEPT ![s] =
                  IF found THEN [r EXCEPT !.pc = "rm_caller", !.tRole = role[o][u]]
                  ELSE Done(r, MemberNotFound)]
  /\ UNCHANGED <<todos, seedApplied, orgSlug, usedIds, role, profile>>

\* mutant of RemoveMemberChecks: the admin-on-non-member guard is missing
RemoveMemberChecks_NoAdminGuard(p, targetUser, currentUserRole, targetRole) ==
  LET isSelf == targetUser = p
  IN IF ~isSelf /\ currentUserRole = "member" THEN NotAuthorized
     ELSE IF ~isSelf /\ targetRole = "owner" THEN CannotRemoveOwner
     ELSE Ok

\* the authorization checks of organizations.ts 636-658, on the roles the handler read
RemoveMemberChecks(p, targetUser, currentUserRole, targetRole) ==
  LET isSelf == targetUser = p
  IN IF ~isSelf /\ currentUserRole = "member" THEN NotAuthorized
     ELSE IF ~isSelf /\ currentUserRole = "admin" /\ targetRole # "member" THEN NotAuthorized
     ELSE IF ~isSelf /\ targetRole = "owner" THEN CannotRemoveOwner
     ELSE Ok

\* organizations.ts 624-658: fetch the caller's own row, then the checks
RemoveMemberFetchCaller(s) ==
  /\ req[s].op = "remove" /\ req[s].pc = "rm_caller"
  /\ LET r == req[s]
         mine == role[r.org][r.caller]
         verdict == RemoveMemberChecks(r.caller, r.user, mine, r.tRole)
     IN req' = [req EXCEPT ![s] =
                  IF mine = None THEN Done(r, NotAMember)
                  ELSE IF verdict # Ok THEN Done(r, verdict)
                  ELSE [r EXCEPT !.pc = "rm_delete"]]
  /\ UNCHANGED <<todos, seedApplied, orgSlug, usedIds, role, profile>>

\* organizations.ts 660-667: DELETE ... WHERE id = memberId. Rows the DELETE policy
\* hides are not deleted and raise no error; the statement waits for a row lock.
RemoveMemberDelete(s) ==
  /\ req[s].op = "remove" /\ req[s].pc = "rm_delete"
  /\ LET r == req[s]
         exists == r.user # NoUser /\ role[r.org][r.user] # None
         hit == exists /\ MembersDeletePolicy(r.caller, r.org, r.user, role[r.org][r.user])
     IN /\ exists => ~LockedByOther(s, r.org, r.user)
        /\ role' = IF hit THEN [role EXCEPT ![r.org][r.user] = None] ELSE role
        /\ req' = [ForgetRows(req, r.org, IF hit THEN {r.user} ELSE {})
                     EXCEPT ![s] = Done(r, Ok)]
  /\ UNCHANGED <<todos, seedApplied, orgSlug, usedIds, profile>>

\* ------------------------------------------------------------------ updateMemberRole
\* "Admins can update members" (FOR UPDATE) USING, on the existing row
MembersUpdateUsing(p, o, rowRole) ==
  is_organization_admin(p, o) /\ (rowRole # "owner" \/ is_organization_owner(p, o))

\* "Admins can update members" WITH CHECK, on the new row. The helper functions are
\* STABLE: they read the snapshot of the calling statement, the roles before the write.
MembersUpdateCheck(p, o, newRole) ==
  is_organization_admin(p, o) /\ (newRole # "owner" \/ is_organization_owner(p, o))

\* organizations.ts 533-542: fetch the target row by id (RLS SELECT applies)
UpdateMemberRoleFetchTarget(s, p, o, u, nr) ==
  /\ req[s].op = "idle"
  /\ LET found == u # NoUser /\ role[o][u] # None /\ MembersSelectPolicy(p, o)
         r == [NewReq("updateRole", p) EXCEPT !.org = o, !.user = u, !.newRole = nr]
     IN req' = [req EXCEPT ![s] =
                  IF found THEN [r EXCEPT !.pc = "ur_caller", !.tRole = role[o][u]]
                  ELSE Done(r, MemberNotFound)]
  /\ UNCHANGED <<todos, seedApplied, orgSlug, usedIds, role, profile>>

\* mutant of UpdateMemberRoleChecks: an admin may change a target of any current role
UpdateMemberRoleChecks_AnyTarget(currentUserRole, targetCurrentRole, newRole) ==
  IF currentUserRole = "member" THEN NotAuthorized
  ELSE IF currentUserRole = "admin" /\ newRole = "owner" THEN NotAuthorized
  ELSE IF newRole = "owner" /\ currentUserRole # "owner" THEN NotAuthorized
  ELSE Ok

\* the authorization checks of organizations.ts 556-581, on the roles the handler read
UpdateMemberRoleChecks(currentUserRole, targetCurrentRole, newRole) ==
  IF currentUserRole = "member" THEN NotAuthorized
  ELSE IF currentUserRole = "admin" /\ targetCurrentRole # "member" THEN NotAuthorized
  ELSE IF currentUserRole = "admin" /\ newRole = "owner" THEN NotAuthorized
  ELSE IF newRole = "owner" /\ currentUserRole # "owner" THEN NotAuthorized
  ELSE Ok

\* organizations.ts 544-581: fetch the caller's own row, then the checks
UpdateMemberRoleFetchCaller(s) ==
  /\ req[s].op = "updateRole" /\ req[s].pc = "ur_caller"
  /\ LET r == req[s]
         mine == role[r.org][r.caller]
         verdict == UpdateMemberRoleChecks(mine, r.tRole, r.newRole)
     IN req' = [req EXCEPT ![s] =
                  IF mine = None THEN Done(r, NotAMember)
                  ELSE IF verdict # Ok THEN Done(r, verdict)
                  ELSE [r EXCEPT !.pc = "ur_update"]]
  /\ UNCHANGED <<todos, seedApplied, orgSlug, usedIds, role, profile>>

\* mutant of UpdateMemberRoleUpdate: granting the role owner hands ownership over, the
\* caller's own row becomes admin
UpdateMemberRoleUpdate_Transfer(s) ==
  /\ req[s].op = "updateRole" /\ req[s].pc = "ur_update"
  /\ LET r == req[s]
         exists == r.user # NoUser /\ role[r.org][r.user] # None
         hit == exists /\ MembersUpdateUsing(r.caller, r.org, role[r.org][r.user])
         pass == hit /\ MembersUpdateCheck(r.caller, r.org, r.newRole)
     IN /\ exists => ~LockedByOther(s, r.org, r.user)
        /\ role' = IF pass
                     THEN [role EXCEPT ![r.org] =
                             [u \in Users |->
                                IF u = r.user THEN r.newRole
                                ELSE IF u = r.caller /\ r.newRole = "owner" THEN "admin"
                                ELSE role[r.org][u]]]
                   ELSE role
        /\ req' = [req EXCEPT ![s] = Done(r, IF pass THEN Ok ELSE InternalError)]
  /\ UNCHANGED <<todos, seedApplied, orgSlug, usedIds, profile>>

\* organizations.ts 583-594: UPDATE ... SET role WHERE id = memberId, .select().single().
\* No row (deleted, or hidden by USING) makes .single() fail; a new row the WITH CHECK
\* refuses raises; the statement waits for a row lock.
UpdateMemberRoleUpdate(s) ==
  /\ req[s].op = "updateRole" /\ req[s].pc = "ur_update"
  /\ LET r == req[s]
         exists == r.user # NoUser /\ role[r.org][r.user] # None
         hit == exists /\ MembersUpdateUsing(r.caller, r.org, role[r.org][r.user])
         pass == hit /\ MembersUpdateCheck(r.caller, r.org, r.newRole)
     IN /\ exists => ~LockedByOther(s, r.org, r.user)
        /\ role' = IF pass THEN [role EXCEPT ![r.org][r.user] = r.newRole] ELSE role
        /\ req' = [req EXCEPT ![s] = Done(r, IF pass THEN Ok ELSE InternalError)]
  /\ UNCHANGED <<todos, seedApplied, orgSlug, usedIds, profile>>

\* ------------------------------------------------------------------ addOrganizationMember
\* "Admins can add members" (FOR INSERT) WITH CHECK, as the migration creates it
MembersInsertPolicyOriginal(p, o, newRole) == is_organization_admin(p, o)

\* "Admins can add members" (FOR INSERT) WITH CHECK, as redefined by seed.sql
MembersInsertPolicyFixed(p, o, newRole) ==
  is_organization_admin(p, o) /\ (newRole # "owner" \/ is_organization_owner(p, o))

\* the policy in force: seed.sql drops and recreates it; seed.sql is run when a local
\* database is reset and is not one of the migrations a deployment applies
MembersInsertPolicy(p, o, newRole) ==
  IF seedApplied THEN MembersInsertPolicyFixed(p, o, newRole)
  ELSE MembersInsertPolicyOriginal(p, o, newRole)

\* get_user_organization_ids()
get_user_organization_ids(p) == {o \in OrgIds : role[o][p] # None}

\* "Users can view own profile" / "Users can view org member profiles" (FOR SELECT)
ProfilesSelectPolicy(p, u) ==
  \/ u = p
  \/ \E o \in get_user_organization_ids(p) : role[o][u] # None

\* organizations.ts 461-476: the caller's own row and the admin check
AddOrganizationMemberFetchCaller(s, p, o, u, nr) ==
  /\ req[s].op = "idle"
  /\ LET mine == role[o][p]
         r == [NewReq("add", p) EXCEPT !.org = o, !.user = u, !.newRole = nr]
     IN req' = [req EXCEPT ![s] =
                  IF mine = None THEN Done(r, NotAMember)
                  ELSE IF mine # "owner" /\ mine # "admin" THEN Done(r, NotAuthorized)
                  ELSE [r EXCEPT !.pc = "add_profile"]]
  /\ UNCHANGED <<todos, seedApplied, orgSlug, usedIds, role, profile>>

\* organizations.ts 478-491: the target must have a profile row the caller can see
AddOrganizationMemberFetchProfile(s) ==
  /\ req[s].op = "add" /\ req[s].pc = "add_profile"
  /\ LET r == req[s]
         targetProfile == profile[r.user] # NoRow /\ ProfilesSelectPolicy(r.caller, r.user)
     IN req' = [req EXCEPT ![s] =
                  IF targetProfile THEN [r EXCEPT !.pc = "add_insert"]
                  ELSE Done(r, PrincipalNotFound)]
  /\ UNCHANGED <<todos, seedApplied, orgSlug, usedIds, role, profile>>

\* a transaction other than s's has deleted row (o, u) and not yet committed
DeletePending(s, o, u) ==
  \E t \in Slots \ {s} :
    req[t].op = "leave" /\ req[t].pc = "lv_commit" /\ req[t].org = o /\ req[t].caller = u

\* mutant of AddOrganizationMemberInsert: no unique index on (organization_id, user_id)
AddOrganizationMemberInsert_NoUniqueIndex(s) ==
  /\ req[s].op = "add" /\ req[s].pc = "add_insert"
  /\ LET r == req[s]
         allowed == MembersInsertPolicy(r.caller, r.org, r.newRole)
     IN /\ role' = IF allowed THEN [role EXCEPT ![r.org][r.user] = r.newRole] ELSE role
        /\ req' = [req EXCEPT ![s] = Done(r, IF ~allowed THEN InternalError ELSE Ok)]
  /\ UNCHANGED <<todos, seedApplied, orgSlug, usedIds, profile>>

\* organizations.ts 493-510: INSERT. The WITH CHECK is evaluated before the unique index
\* is probed; 23505 maps to AlreadyMember, every other error to "Failed to add member".
\* Row locks do not hold an INSERT back; only an uncommitted DELETE of the same key does.
AddOrganizationMemberInsert(s) ==
  /\ req[s].op = "add" /\ req[s].pc = "add_insert"
  /\ LET r == req[s]
         allowed == MembersInsertPolicy(r.caller, r.org, r.newRole)
         dup == role[r.org][r.user] # None
     IN /\ (allowed /\ dup) => ~DeletePending(s, r.org, r.user)
        /\ role' = IF allowed /\ ~dup THEN [role EXCEPT ![r.org][r.user] = r.newRole]
                   ELSE role
        /\ req' = [req EXCEPT ![s] =
                     Done(r, IF ~allowed THEN InternalError
                             ELSE IF dup THEN AlreadyMember ELSE Ok)]
  /\ UNCHANGED <<todos, seedApplied, orgSlug, usedIds, profile>>

\* ------------------------------------------------------------------ leaveOrganization
\* mutant of LeaveLockOwn: an owner takes the same path as every other member
LeaveLockOwn_NoOwnerBranch(s, p, o) ==
  /\ req[s].op = "idle"
  /\ ~LockedByOther(s, o, p)
  /\ LET r == [NewReq("leave", p) EXCEPT !.org = o]
         user_role == role[o][p]
     IN req' = [req EXCEPT ![s] =
                  IF user_role = None THEN Done(r, NotAMember)
                  ELSE [r EXCEPT !.tRole = user_role, !.locks = {p}, !.pc = "lv_delete"]]
  /\ UNCHANGED <<todos, seedApplied, orgSlug, usedIds, role, profile>>

\* leave_organization, first statement: SELECT role ... FOR UPDATE on the caller's row
LeaveLockOwn(s, p, o) ==
  /\ req[s].op = "idle"
  /\ ~LockedByOther(s, o, p)
  /\ LET r == [NewReq("leave", p) EXCEPT !.org = o]
         user_role == role[o][p]
     IN req' = [req EXCEPT ![s] =
                  IF user_role = None THEN Done(r, NotAMember)
                  ELSE [r EXCEPT !.tRole = user_role, !.locks = {p},
                                 !.pc = IF user_role = "owner" THEN "lv_count"
                                        ELSE "lv_delete"]]
  /\ UNCHANGED <<todos, seedApplied, orgSlug, usedIds, role, profile>>

\* mutant of LeaveCountMembers: the count is compared with 2, not 1
LeaveCountMembers_OffByOne(s) ==
  /\ req[s].op = "leave" /\ req[s].pc = "lv_count"
  /\ LET r == req[s]
         member_count == Cardinality(MemberRows(r.org))
     IN /\ \A u \in MemberRows(r.org) : ~LockedByOther(s, r.org, u)
        /\ req' = [req EXCEPT ![s] =
                     IF member_count > 2 THEN Done(r, MustTransferOwnership)
                     ELSE [r EXCEPT !.locks = MemberRows(r.org), !.pc = "lv_delete"]]
  /\ UNCHANGED <<todos, seedApplied, orgSlug, usedIds, role, profile>>

\* leave_organization, owner branch: SELECT COUNT(*) ... FOR UPDATE locks every row of
\* the organization, counts them and raises when there is more than one.
LeaveCountMembers(s) ==
  /\ req[s].op = "leave" /\ req[s].pc = "lv_count"
  /\ LET r == req[s]
         member_count == Cardinality(MemberRows(r.org))
     IN /\ \A u \in MemberRows(r.org) : ~LockedByOther(s, r.org, u)
        /\ req' = [req EXCEPT ![s] =
                     IF member_count > 1 THEN Done(r, MustTransferOwnership)
                     ELSE [r EXCEPT !.locks = MemberRows(r.org), !.pc = "lv_delete"]]
  /\ UNCHANGED <<todos, seedApplied, orgSlug, usedIds, role, profile>>

\* The same statement on PostgreSQL: FOR UPDATE is not allowed with aggregate functions
\* (feature_not_supported), raised when the statement is first planned. The message has
\* none of the texts leaveOrganization maps, so it surfaces as "Failed to leave ...".
LeaveCountRejected(s) ==
  /\ req[s].op = "leave" /\ req[s].pc = "lv_count"
  /\ req' = [req EXCEPT ![s] = Done(req[s], FeatureNotSupported)]
  /\ UNCHANGED <<todos, seedApplied, orgSlug, usedIds, role, profile>>

\* Two owners each hold their own row and wait for the other's: the store's deadlock
\* detector aborts one of them (40P01, "deadlock detected"), which releases its lock.
LeaveDeadlock(s) ==
  /\ req[s].op = "leave" /\ req[s].pc = "lv_count"
  /\ \E t \in Slots \ {s} :
       /\ req[t].op = "leave" /\ req[t].pc = "lv_count" /\ req[t].org = req[s].org
       /\ \E u \in req[t].locks : role[req[s].org][u] # None
       /\ \E u \in req[s].locks : role[req[t].org][u] # None
       /\ req[t].locks # req[s].locks
  /\ req' = [req EXCEPT ![s] = Done(req[s], DeadlockDetected)]
  /\ UNCHANGED <<todos, seedApplied, orgSlug, usedIds, role, profile>>

\* leave_organization: DELETE of the caller's row (invisible to others until commit),
\* then SELECT current_organization_id INTO user_current_org
LeaveDelete(s) ==
  /\ req[s].op = "leave" /\ req[s].pc = "lv_delete"
  /\ req' = [req EXCEPT ![s] =
               [req[s] EXCEPT !.pc = "lv_commit",
                              !.cur = IF profile[req[s].caller] = NoRow THEN Null
                                      ELSE profile[req[s].caller]]]
  /\ UNCHANGED <<todos, seedApplied, orgSlug, usedIds, role, profile>>

\* leave_organization: the conditional UPDATE of the profile, then commit: the delete
\* becomes visible and the row locks are released
LeaveCommit(s) ==
  /\ req[s].op = "leave" /\ req[s].pc = "lv_commit"
  /\ LET r == req[s]
     IN /\ role' = [role EXCEPT ![r.org][r.caller] = None]
        /\ profile' = IF r.cur = r.org /\ profile[r.caller] # NoRow
                        THEN [profile EXCEPT ![r.caller] = Null]
                        ELSE profile
        /\ req' = [ForgetRows(req, r.org, {r.caller}) EXCEPT ![s] = Done(r, Ok)]
  /\ UNCHANGED <<todos, seedApplied, orgSlug, usedIds>>

\* ------------------------------------------------------------------ deleteOrganization
\* "Owners can delete organizations" (FOR DELETE)
OrganizationsDeletePolicy(p, o) == is_organization_owner(p, o)

\* mutant of DeleteOrganizationFetchCaller: the owner check is missing
DeleteOrganizationFetchCaller_NoOwnerCheck(s, p, o) ==
  /\ req[s].op = "idle"
  /\ LET mine == role[o][p]
         r == [NewReq("deleteOrg", p) EXCEPT !.org = o]
     IN req' = [req EXCEPT ![s] =
                  IF mine = None THEN Done(r, NotAMember)
                  ELSE [r EXCEPT !.pc = "do_delete"]]
  /\ UNCHANGED <<todos, seedApplied, orgSlug, usedIds, role, profile>>

\* organizations.ts 361-375: the caller's own row and the owner check
DeleteOrganizationFetchCaller(s, p, o) ==
  /\ req[s].op = "idle"
  /\ LET mine == role[o][p]
         r == [NewReq("deleteOrg", p) EXCEPT !.org = o]
     IN req' = [req EXCEPT ![s] =
                  IF mine = None THEN Done(r, NotAMember)
                  ELSE IF mine # "owner" THEN Done(r, NotAuthorized)
                  ELSE [r EXCEPT !.pc = "do_delete"]]
  /\ UNCHANGED <<todos, seedApplied, orgSlug, usedIds, role, profile>>

\* mutant of DeleteOrganizationDelete: todos.organization_id has no ON DELETE CASCADE
DeleteOrganizationDelete_KeepTodos(s) ==
  /\ req[s].op = "deleteOrg" /\ req[s].pc = "do_delete"
  /\ LET r == req[s]
         hit == orgSlug[r.org] # NoOrg /\ OrganizationsDeletePolicy(r.caller, r.org)
     IN /\ hit => \A u \in MemberRows(r.org) : ~LockedByOther(s, r.org, u)
        /\ orgSlug' = IF hit THEN [orgSlug EXCEPT ![r.org] = NoOrg] ELSE orgSlug
        /\ role' = IF hit THEN [role EXCEPT ![r.org] = [u \in Users |-> None]] ELSE role
        /\ profile' = IF hit THEN [u \in Users |-> IF profile[u] = r.org THEN Null
                                                   ELSE profile[u]]
                      ELSE profile
        /\ req' = [ForgetRows(req, r.org, IF hit THEN Users ELSE {})
                     EXCEPT ![s] = Done(r, Ok)]
  /\ UNCHANGED <<usedIds, seedApplied, todos>>

\* organizations.ts 377-381: DELETE FROM organizations WHERE id. ON DELETE CASCADE
\* removes the membership rows and the todos of the organization, ON DELETE SET NULL
\* clears the profiles that point at it.
\* A row the policy hides is not deleted and raises no error.
DeleteOrganizationDelete(s) ==
  /\ req[s].op = "deleteOrg" /\ req[s].pc = "do_delete"
  /\ LET r == req[s]
         hit == orgSlug[r.org] # NoOrg /\ OrganizationsDeletePolicy(r.caller, r.org)
     IN /\ hit => \A u \in MemberRows(r.org) : ~LockedByOther(s, r.org, u)
        /\ orgSlug' = IF hit THEN [orgSlug EXCEPT ![r.org] = NoOrg] ELSE orgSlug
        /\ role' = IF hit THEN [role EXCEPT ![r.org] = [u \in Users |-> None]] ELSE role
        /\ profile' = IF hit THEN [u \in Users |-> IF profile[u] = r.org THEN Null
                                                   ELSE profile[u]]
                      ELSE profile
        /\ todos' = IF hit THEN [t \in TodoIds |-> IF todos[t].organization_id = r.org
                                                    THEN NoTodo ELSE todos[t]]
                    ELSE todos
        /\ req' = [ForgetRows(req, r.org, IF hit THEN Users ELSE {})
                     EXCEPT ![s] = Done(r, Ok)]
  /\ UNCHANGED <<usedIds, seedApplied>>

\* ------------------------------------------------------------------ createOrganization
\* "Users can view their organizations" (FOR SELECT)
OrganizationsSelectPolicy(p, o) == is_organization_member(p, o)

\* mutant of CreateOrganizationRpc: the owner membership is not inserted
CreateOrganizationRpc_NoMembership(s, p, sl) ==
  /\ req[s].op = "idle"
  /\ LET r == [NewReq("create", p) EXCEPT !.slug = sl]
         taken == \E o \in OrgIds : orgSlug[o] = sl
     IN IF taken
          THEN /\ req' = [req EXCEPT ![s] = Done(r, SlugConflict)]
               /\ UNCHANGED <<todos, seedApplied, orgSlug, usedIds, role, profile>>
          ELSE \E new_org_id \in OrgIds \ usedIds :
                 /\ orgSlug' = [orgSlug EXCEPT ![new_org_id] = sl]
                 /\ usedIds' = usedIds \cup {new_org_id}
                 /\ profile' = [profile EXCEPT ![p] = new_org_id]
                 /\ req' = [req EXCEPT ![s] = [r EXCEPT !.org = new_org_id, !.pc = "co_fetch"]]
                 /\ UNCHANGED <<todos, seedApplied, role>>

\* mutant of CreateOrganizationRpc: no UNIQUE index on organizations.slug
CreateOrganizationRpc_NoUniqueSlug(s, p, sl) ==
  /\ req[s].op = "idle"
  /\ LET r == [NewReq("create", p) EXCEPT !.slug = sl]
     IN \E new_org_id \in OrgIds \ usedIds :
          /\ orgSlug' = [orgSlug EXCEPT ![new_org_id] = sl]
          /\ usedIds' = usedIds \cup {new_org_id}
          /\ role' = [role EXCEPT ![new_org_id][p] = "owner"]
          /\ profile' = [profile EXCEPT ![p] = new_org_id]
          /\ req' = [req EXCEPT ![s] = [r EXCEPT !.org = new_org_id, !.pc = "co_fetch"]]
          /\ UNCHANGED <<todos, seedApplied>>

\* organizations.ts 261-277 and create_organization_with_owner: one transaction that
\* inserts the organization, the owner membership and the profile pointer; the UNIQUE
\* slug index refuses a taken slug (23505) and nothing is written.
CreateOrganizationRpc(s, p, sl) ==
  /\ req[s].op = "idle"
  /\ LET r == [NewReq("create", p) EXCEPT !.slug = sl]
         taken == \E o \in OrgIds : orgSlug[o] = sl
     IN IF taken
          THEN /\ req' = [req EXCEPT ![s] = Done(r, SlugConflict)]
               /\ UNCHANGED <<todos, seedApplied, orgSlug, usedIds, role, profile>>
          ELSE \E new_org_id \in OrgIds \ usedIds :
                 /\ orgSlug' = [orgSlug EXCEPT ![new_org_id] = sl]
                 /\ usedIds' = usedIds \cup {new_org_id}
                 /\ role' = [role EXCEPT ![new_org_id][p] = "owner"]
                 /\ profile' = [profile EXCEPT ![p] = new_org_id]
                 /\ req' = [req EXCEPT ![s] = [r EXCEPT !.org = new_org_id, !.pc = "co_fetch"]]
                 /\ UNCHANGED <<todos, seedApplied>>

\* organizations.ts 279-290: fetch the created organization (RLS SELECT applies)
CreateOrganizationFetch(s) ==
  /\ req[s].op = "create" /\ req[s].pc = "co_fetch"
  /\ LET r == req[s]
         seen == orgSlug[r.org] # NoOrg /\ OrganizationsSelectPolicy(r.caller, r.org)
     IN req' = [req EXCEPT ![s] = Done(r, IF seen THEN Ok ELSE InternalError)]
  /\ UNCHANGED <<todos, seedApplied, orgSlug, usedIds, role, profile>>

\* ------------------------------------------------------------------ getOrganization
\* organizations.ts 66-91: SELECT by id (RLS SELECT applies); no row returns null
GetOrganization(s, p, o) ==
  /\ req[s].op = "idle"
  /\ LET r == [NewReq("getOrg", p) EXCEPT !.org = o]
         seen == orgSlug[o] # NoOrg /\ OrganizationsSelectPolicy(p, o)
     IN req' = [req EXCEPT ![s] = Done(r, IF seen THEN Ok ELSE NotFound)]
  /\ UNCHANGED <<todos, seedApplied, orgSlug, usedIds, role, profile>>

\* organizations.ts 96-121: SELECT by slug (RLS SELECT applies); no row returns null
GetOrganizationBySlug(s, p, sl) ==
  /\ req[s].op = "idle"
  /\ LET r == [NewReq("getOrgBySlug", p) EXCEPT !.slug = sl]
         seen == \E o \in OrgIds : orgSlug[o] = sl /\ OrganizationsSelectPolicy(p, o)
     IN req' = [req EXCEPT ![s] = Done(r, IF seen THEN Ok ELSE NotFound)]
  /\ UNCHANGED <<todos, seedApplied, orgSlug, usedIds, role, profile>>

\* ------------------------------------------------------------------ checkSlugAvailability
\* organizations.ts 717-739: count of the organizations with the slug that the SELECT
\* policy lets the caller see; available when the count is 0
CheckSlugAvailability(s, p, sl) ==
  /\ req[s].op = "idle"
  /\ LET r == [NewReq("checkSlug", p) EXCEPT !.slug = sl]
         count == Cardinality({o \in OrgIds :
                                 orgSlug[o] = sl /\ OrganizationsSelectPolicy(p, o)})
     IN req' = [req EXCEPT ![s] = Done(r, IF count = 0 THEN SqlTrue ELSE SqlFalse)]
  /\ UNCHANGED <<todos, seedApplied, orgSlug, usedIds, role, profile>>

\* ------------------------------------------------------------------ setCurrentOrganization
\* mutant of SetCurrentOrganizationFetch: the membership is not verified
SetCurrentOrganizationFetch_Unverified(s, p, o) ==
  /\ req[s].op = "idle"
  /\ req' = [req EXCEPT ![s] =
               [NewReq("setCurrent", p) EXCEPT !.org = o, !.pc = "sc_upsert"]]
  /\ UNCHANGED <<todos, seedApplied, orgSlug, usedIds, role, profile>>

\* organizations.ts 400-410: the caller's own membership row in the organization
SetCurrentOrganizationFetch(s, p, o) ==
  /\ req[s].op = "idle"
  /\ LET r == [NewReq("setCurrent", p) EXCEPT !.org = o]
         membership == role[o][p] # None /\ MembersSelectPolicy(p, o)
     IN req' = [req EXCEPT ![s] =
                  IF membership THEN [r EXCEPT !.pc = "sc_upsert"]
                  ELSE Done(r, NotAMember)]
  /\ UNCHANGED <<todos, seedApplied, orgSlug, usedIds, role, profile>>

\* organizations.ts 412-424: upsert of the caller's profile row (the policies admit a
\* row whose id is the caller's); the foreign key refuses an organization that is gone
SetCurrentOrganizationUpsert(s) ==
  /\ req[s].op = "setCurrent" /\ req[s].pc = "sc_upsert"
  /\ LET r == req[s]
         referenced == orgSlug[r.org] # NoOrg
     IN /\ profile' = IF referenced THEN [profile EXCEPT ![r.caller] = r.org] ELSE profile
        /\ req' = [req EXCEPT ![s] = Done(r, IF referenced THEN Ok ELSE InternalError)]
  /\ UNCHANGED <<todos, seedApplied, orgSlug, usedIds, role>>

\* ------------------------------------------------------------------ SQL functions (rpc)
\* SELECT get_current_organization_id() by principal p
GetCurrentOrganizationIdRpc(s, p) ==
  /\ req[s].op = "idle"
  /\ \E v \in get_current_organization_id(p) :
       req' = [req EXCEPT ![s] = Done([NewReq("getCurrentOrg", p) EXCEPT !.cur = v], Ok)]
  /\ UNCHANGED <<todos, seedApplied, orgSlug, usedIds, role, profile>>

\* SELECT has_organization_role(org_id, required_role) by principal p
HasOrganizationRoleRpc(s, p, o, required_role) ==
  /\ req[s].op = "idle"
  /\ LET r == [NewReq("hasRole", p) EXCEPT !.org = o, !.newRole = required_role]
     IN req' = [req EXCEPT ![s] =
                  Done(r, IF has_organization_role(p, o, required_role) THEN SqlTrue
                          ELSE SqlFalse)]
  /\ UNCHANGED <<todos, seedApplied, orgSlug, usedIds, role, profile>>

\* ------------------------------------------------------------------ todos
\* "Members can create organization todos" (FOR INSERT) WITH CHECK, row = (o, u)
TodosInsertPolicy(p, o, u) ==
  \/ (o # Null /\ is_organization_member(p, o) /\ u = p)
  \/ (o = Null /\ u = p)

\* routes/tasks/index.tsx 43-67: createTodo inserts a personal todo of the caller
CreateTodo(p, t) ==
  /\ todos[t] = NoTodo
  /\ TodosInsertPolicy(p, Null, p)
  /\ todos' = [todos EXCEPT ![t] = [organization_id |-> Null, user_id |-> p,
                                    is_complete |-> FALSE]]
  /\ UNCHANGED <<seedApplied, orgSlug, usedIds, role, profile, req>>

\* an INSERT into todos through the data API by principal p: the row is written when
\* the INSERT policy admits it, and refused otherwise
TodosInsert(p, t, o, u) ==
  /\ todos[t] = NoTodo
  /\ todos' = IF TodosInsertPolicy(p, o, u)
                THEN [todos EXCEPT ![t] = [organization_id |-> o, user_id |-> u,
                                           is_complete |-> FALSE]]
              ELSE todos
  /\ UNCHANGED <<seedApplied, orgSlug, usedIds, role, profile, req>>

\* mutant of TodosSelectPolicy: the creator of a todo can always read it
TodosSelectPolicy_CreatorSees(p, o, u) ==
  \/ is_organization_member(p, o)
  \/ u = p

\* "Members can view organization todos" (FOR SELECT), row = (o, u)
TodosSelectPolicy(p, o, u) ==
  \/ is_organization_member(p, o)
  \/ (o = Null /\ u = p)

\* "Members can update organization todos" (FOR UPDATE), USING on the existing row and
\* WITH CHECK on the new row: the same expression
TodosUpdatePolicy(p, o, u) ==
  u = p /\ (is_organization_member(p, o) \/ o = Null)

\* mutant of prevent_todo_org_change: only the target organization is checked
prevent_todo_org_change_TargetOnly(p, old_org, new_org) ==
  IF old_org # new_org
    THEN ~(new_org # Null /\ ~is_organization_admin(p, new_org))
    ELSE TRUE

\* prevent_todo_org_change(), BEFORE UPDATE trigger: TRUE when it returns NEW, FALSE when
\* it raises 'Cannot move todo: ...'
prevent_todo_org_change(p, old_org, new_org) ==
  IF old_org # new_org
    THEN /\ ~(old_org # Null /\ ~is_organization_admin(p, old_org))
         /\ ~(new_org # Null /\ ~is_organization_admin(p, new_org))
    ELSE TRUE

\* mutant of TodosDeletePolicy: every member of the organization may delete
TodosDeletePolicy_AnyMember(p, o, u) ==
  \/ (u = p /\ (is_organization_member(p, o) \/ o = Null))
  \/ is_organization_member(p, o)

\* "Members can delete organization todos" (FOR DELETE), row = (o, u)
TodosDeletePolicy(p, o, u) ==
  \/ (u = p /\ (is_organization_member(p, o) \/ o = Null))
  \/ is_organization_admin(p, o)

\* a statement on todos through the data API ends: Ok when it returned or wrote the row,
\* NotFound when no row passed its policies (no error is raised), else the error
TodoReq(o, p, t) == [NewReq(o, p) EXCEPT !.todo = t]

\* SELECT * FROM todos WHERE id = t, by principal p
TodosSelect(s, p, t) ==
  /\ req[s].op = "idle"
  /\ LET row == todos[t]
         seen == row # NoTodo /\ TodosSelectPolicy(p, row.organization_id, row.user_id)
     IN req' = [req EXCEPT ![s] =
                  Done(TodoReq("todoSelect", p, t), IF seen THEN Ok ELSE NotFound)]
  /\ UNCHANGED <<todos, seedApplied, orgSlug, usedIds, role, profile>>

\* routes/tasks/index.tsx 14-41: getTodos, the caller's own todos that the SELECT policy
\* lets through
GetTodos(s, p) ==
  /\ req[s].op = "idle"
  /\ LET seen == {t \in TodoIds :
                    /\ todos[t] # NoTodo /\ todos[t].user_id = p
                    /\ TodosSelectPolicy(p, todos[t].organization_id, todos[t].user_id)}
     IN req' = [req EXCEPT ![s] = Done([NewReq("getTodos", p) EXCEPT !.rows = seen], Ok)]
  /\ UNCHANGED <<todos, seedApplied, orgSlug, usedIds, role, profile>>

\* UPDATE todos SET organization_id = o, is_complete = c WHERE id = t, by principal p:
\* rows the SELECT and UPDATE USING policies hide are skipped, then the BEFORE UPDATE
\* trigger runs, then the WITH CHECK on the new row
TodosUpdate(s, p, t, o, c) ==
  /\ req[s].op = "idle"
  /\ LET row == todos[t]
         r == [TodoReq("todoUpdate", p, t) EXCEPT !.org = o, !.cur = row.organization_id]
         hit == /\ row # NoTodo
                /\ TodosSelectPolicy(p, row.organization_id, row.user_id)
                /\ TodosUpdatePolicy(p, row.organization_id, row.user_id)
         moved == prevent_todo_org_change(p, row.organization_id, o)
         checked == TodosUpdatePolicy(p, o, row.user_id)
         written == hit /\ moved /\ checked
     IN /\ todos' = IF written
                      THEN [todos EXCEPT ![t] = [organization_id |-> o,
                                                 user_id |-> row.user_id,
                                                 is_complete |-> c]]
                    ELSE todos
        /\ req' = [req EXCEPT ![s] =
                     Done(r, IF ~hit THEN NotFound
                             ELSE IF ~moved THEN NotAuthorized
                             ELSE IF ~checked THEN InternalError ELSE Ok)]
  /\ UNCHANGED <<seedApplied, orgSlug, usedIds, role, profile>>

\* routes/tasks/index.tsx 69-93: updateTodo sets is_complete on the caller's own todo;
\* .single() makes an update of no row an error
UpdateTodo(s, p, t, c) ==
  /\ req[s].op = "idle"
  /\ LET row == todos[t]
         r == [TodoReq("updateTodo", p, t) EXCEPT !.cur = row.organization_id]
         hit == /\ row # NoTodo /\ row.user_id = p
                /\ TodosSelectPolicy(p, row.organization_id, row.user_id)
                /\ TodosUpdatePolicy(p, row.organization_id, row.user_id)
                /\ prevent_todo_org_change(p, row.organization_id, row.organization_id)
     IN /\ todos' = IF hit THEN [todos EXCEPT ![t].is_complete = c] ELSE todos
        /\ req' = [req EXCEPT ![s] = Done(r, IF hit THEN Ok ELSE InternalError)]
  /\ UNCHANGED <<seedApplied, orgSlug, usedIds, role, profile>>

\* DELETE FROM todos WHERE id = t, by principal p: rows the SELECT and DELETE policies
\* hide are skipped
TodosDelete(s, p, t) ==
  /\ req[s].op = "idle"
  /\ LET row == todos[t]
         r == [TodoReq("todoDelete", p, t) EXCEPT !.cur = row.organization_id]
         hit == /\ row # NoTodo
                /\ TodosSelectPolicy(p, row.organization_id, row.user_id)
                /\ TodosDeletePolicy(p, row.organization_id, row.user_id)
     IN /\ todos' = IF hit THEN [todos EXCEPT ![t] = NoTodo] ELSE todos
        /\ req' = [req EXCEPT ![s] = Done(r, IF hit THEN Ok ELSE NotFound)]
  /\ UNCHANGED <<seedApplied, orgSlug, usedIds, role, profile>>

\* ------------------------------------------------------------------ specifications
\* the handler returns (or throws) and the session is free for the next request
Return(s) ==
  /\ req[s].pc = "done"
  /\ req' = [req EXCEPT ![s] = IdleReq]
  /\ UNCHANGED <<todos, seedApplied, orgSlug, usedIds, role, profile>>

\* membership ids a caller can pass within an organization: a principal's row, or a
\* stale id that resolves to no row
MemberIds == Users \cup {NoUser}

RemoveMember(s, O) ==
  \/ \E p \in Users, o \in O, u \in MemberIds : RemoveMemberFetchTarget(s, p, o, u)
  \/ RemoveMemberFetchCaller(s)
  \/ RemoveMemberDelete(s)

UpdateMemberRole(s, O) ==
  \/ \E p \in Users, o \in O, u \in MemberIds, nr \in organization_role :
       UpdateMemberRoleFetchTarget(s, p, o, u, nr)
  \/ UpdateMemberRoleFetchCaller(s)
  \/ UpdateMemberRoleUpdate(s)

AddOrganizationMember(s, O) ==
  \/ \E p \in Users, o \in O, u \in Users, nr \in organization_role :
       AddOrganizationMemberFetchCaller(s, p, o, u, nr)
  \/ AddOrganizationMemberFetchProfile(s)
  \/ AddOrganizationMemberInsert(s)

LeaveOrganization(s, O) ==
  \/ \E p \in Users, o \in O : LeaveLockOwn(s, p, o)
  \/ LeaveCountMembers(s)
  \/ LeaveCountRejected(s)
  \/ LeaveDelete(s)
  \/ LeaveCommit(s)

DeleteOrganization(s, O) ==
  \/ \E p \in Users, o \in O : DeleteOrganizationFetchCaller(s, p, o)
  \/ DeleteOrganizationDelete(s)

CreateOrganization(s) ==
  \/ \E p \in Users, sl \in Slugs : CreateOrganizationRpc(s, p, sl)
  \/ CreateOrganizationFetch(s)

SetCurrentOrganization(s, O) ==
  \/ \E p \in Users, o \in O : SetCurrentOrganizationFetch(s, p, o)
  \/ SetCurrentOrganizationUpsert(s)

\* Spec: every operation, one request at a time, from the empty or a populated store.
Next ==
  \/ RemoveMember("s1", OrgIds)
  \/ UpdateMemberRole("s1", OrgIds)
  \/ AddOrganizationMember("s1", OrgIds)
  \/ LeaveOrganization("s1", OrgIds)
  \/ DeleteOrganization("s1", OrgIds)
  \/ CreateOrganization("s1")
  \/ SetCurrentOrganization("s1", OrgIds)
  \/ \E p \in Users, sl \in Slugs : CheckSlugAvailability("s1", p, sl)
  \/ \E p \in Users : GetCurrentOrganizationIdRpc("s1", p)
  \/ \E p \in Users, o \in OrgIds, rr \in organization_role :
       HasOrganizationRoleRpc("s1", p, o, rr)
  \/ Return("s1")

Spec == Init /\ [][Next]_vars

\* SpecLeave: two sessions, each running leaveOrganization calls, interleaved statement
\* by statement, on a populated store.
NextLeave ==
  \E s \in Slots :
    \/ LeaveOrganization(s, {"o1"})
    \/ LeaveDeadlock(s)
    \/ Return(s)

SpecLeave == InitSeeded /\ [][NextLeave]_vars

\* A populated store with a second organization ("beta") that every principal belongs
\* to, so that every profile is visible to every caller; a profile points at o1 when
\* its principal is a member of o1.
InitShared ==
  /\ orgSlug = [o \in OrgIds |-> IF o = "o1" THEN "acme" ELSE "beta"]
  /\ usedIds = OrgIds
  /\ \E f \in SeedRoles :
       role = [o \in OrgIds |-> IF o = "o1" THEN f
                                ELSE [u \in Users |-> IF u = "A" THEN "owner" ELSE "member"]]
  /\ profile = [u \in Users |-> IF role["o1"][u] = None THEN "o2" ELSE "o1"]
  /\ req = [s \in Slots |-> IdleReq]
  /\ todos = NoTodos
  /\ seedApplied \in BOOLEAN

\* SpecCompete: session s1 runs leaveOrganization calls on o1 while session s2 runs the
\* operations that compete for o1's membership rows.
NextCompete ==
  \/ LeaveOrganization("s1", {"o1"})
  \/ LeaveDeadlock("s1")
  \/ Return("s1")
  \/ AddOrganizationMember("s2", {"o1"})
  \/ RemoveMember("s2", {"o1"})
  \/ LeaveOrganization("s2", {"o1"})
  \/ LeaveDeadlock("s2")
  \/ Return("s2")

SpecCompete == InitShared /\ [][NextCompete]_vars

\* SpecAdd: two sessions, each running addOrganizationMember calls on o1, interleaved
\* statement by statement, on a store where every profile is visible to every caller.
NextAdd ==
  \E s \in Slots :
    \/ AddOrganizationMember(s, {"o1"})
    \/ Return(s)

SpecAdd == InitShared /\ [][NextAdd]_vars

\* The empty store with both organization ids still to be handed out.
InitFresh ==
  /\ orgSlug = [o \in OrgIds |-> NoOrg]
  /\ usedIds = {}
  /\ role = [o \in OrgIds |-> NoRows]
  /\ profile = [u \in Users |-> NoRow]
  /\ req = [s \in Slots |-> IdleReq]
  /\ todos = NoTodos
  /\ seedApplied \in BOOLEAN

\* SpecCreate: two sessions, each running one createOrganization call, interleaved
\* statement by statement, on the empty store.
NextCreate == \E s \in Slots : CreateOrganization(s)

SpecCreate == InitFresh /\ [][NextCreate]_vars

\* SpecTodos: todos are written while one session runs deleteOrganization calls, on a
\* populated store with two organizations.
NextTodos ==
  \/ \E p \in Users, t \in TodoIds : CreateTodo(p, t)
  \/ \E p \in Users, t \in TodoIds, o \in OrgIds, u \in Users : TodosInsert(p, t, o, u)
  \/ DeleteOrganization("s1", OrgIds)
  \/ Return("s1")

SpecTodos == InitShared /\ [][NextTodos]_vars

\* SpecResources: one session runs statements on a todo and removeMember calls on o1,
\* one request at a time, on a populated store with two organizations.
NextResources ==
  \/ \E p \in Users : CreateTodo(p, "t1")
  \/ \E p \in Users, o \in OrgIds : TodosInsert(p, "t1", o, p)
  \/ \E p \in Users : TodosSelect("s1", p, "t1")
  \/ \E p \in Users : GetTodos("s1", p)
  \/ \E p \in Users, o \in OrgIds \cup {Null}, c \in BOOLEAN : TodosUpdate("s1", p, "t1", o, c)
  \/ \E p \in Users, c \in BOOLEAN : UpdateTodo("s1", p, "t1", c)
  \/ \E p \in Users : TodosDelete("s1", p, "t1")
  \/ RemoveMember("s1", {"o1"})
  \/ Return("s1")

SpecResources == InitShared /\ [][NextResources]_vars

\* A populated store: organization o2 ("beta") owned by A with B a member, so that A
\* can see B's profile; organization id o1 still to be handed out.
InitE2E ==
  /\ orgSlug = [o \in OrgIds |-> IF o = "o2" THEN "beta" ELSE NoOrg]
  /\ usedIds = {"o2"}
  /\ role = [o \in OrgIds |->
              IF o = "o2" THEN [u \in Users |-> IF u = "A" THEN "owner"
                                                ELSE IF u = "B" THEN "member" ELSE None]
              ELSE NoRows]
  /\ profile = [u \in Users |-> IF u = "C" THEN NoRow ELSE "o2"]
  /\ req = [s \in Slots |-> IdleReq]
  /\ todos = NoTodos
  /\ seedApplied \in BOOLEAN

\* SpecE2E: the calls of the end-to-end scenario, in any order and number: A creates
\* "acme" and adds B to it as a member, A and B call deleteOrganization on it, B reads it.
NextE2E ==
  \E s \in Slots :
    \/ CreateOrganizationRpc(s, "A", "acme")
    \/ CreateOrganizationFetch(s)
    \/ AddOrganizationMemberFetchCaller(s, "A", "o1", "B", "member")
    \/ AddOrganizationMemberFetchProfile(s)
    \/ AddOrganizationMemberInsert(s)
    \/ \E p \in {"A", "B"} : DeleteOrganizationFetchCaller(s, p, "o1")
    \/ DeleteOrganizationDelete(s)
    \/ GetOrganization(s, "B", "o1")
    \/ GetOrganizationBySlug(s, "B", "acme")
    \/ Return(s)

SpecE2E == InitE2E /\ [][NextE2E]_vars

\* SpecUpdate: two sessions, each running updateMemberRole calls on o1, interleaved
\* statement by statement, on a populated store with two organizations.
NextUpdate ==
  \E s \in Slots :
    \/ UpdateMemberRole(s, {"o1"})
    \/ Return(s)

SpecUpdate == InitShared /\ [][NextUpdate]_vars

\* ================================================================== claims
NoRemainingOwner == "NoRemainingOwner"            \* the rejection the protocol names

\* a finished call of operation o in session s
Finished(s, o) == req[s].op = o /\ req[s].pc = "done"

\* ------------------------------------------------------------------ C1
\* C1: in every reachable state every organization that has a membership row has a
\* membership row whose role is owner.
C1_OwnerInvariant ==
  \A o \in OrgIds : MemberRows(o) # {} => OwnerRows(o) # {}

\* ------------------------------------------------------------------ C2
\* C2: a removeMember call by an owner on the owner's own membership row ends with
\* CannotRemoveOwner and the row is still there.
C2_OwnerSelfRemovalRejected ==
  \A s \in Slots :
    (Finished(s, "remove") /\ req[s].user = req[s].caller /\ req[s].tRole = "owner")
      => (req[s].result = CannotRemoveOwner /\ role[req[s].org][req[s].caller] = "owner")

\* ------------------------------------------------------------------ C3
\* C3: an updateMemberRole call by the only owner of an organization on the owner's own
\* row, asking for a role other than owner, ends with NoRemainingOwner and the owner
\* keeps the role owner.
C3_SoleOwnerSelfDemotionRejected ==
  \A s \in Slots :
    (/\ Finished(s, "updateRole")
     /\ req[s].user = req[s].caller /\ req[s].tRole = "owner"
     /\ req[s].newRole # "owner"
     /\ OwnerRows(req[s].org) \subseteq {req[s].caller})
      => (req[s].result = NoRemainingOwner /\ role[req[s].org][req[s].caller] = "owner")

\* ------------------------------------------------------------------ C4, C5
\* two finished leaveOrganization calls, by two principals who both read the role owner
\* under their row lock, on an organization that has no rows but theirs
CoOwnerLeaves(s, t) ==
  /\ s # t /\ Finished(s, "leave") /\ Finished(t, "leave")
  /\ req[s].org = req[t].org /\ req[s].caller # req[t].caller
  /\ req[s].tRole = "owner" /\ req[t].tRole = "owner"
  /\ MemberRows(req[s].org) \subseteq {req[s].caller, req[t].caller}

\* C4 as stated: of the two co-owners' leave calls exactly one succeeds and the other
\* ends with MustTransferOwnership.
C4_OneLeavesOneRejected ==
  \A s, t \in Slots :
    CoOwnerLeaves(s, t) => {req[s].result, req[t].result} = {Ok, MustTransferOwnership}

\* C4 as amended: neither of the two co-owners' leave calls succeeds; each ends with
\* MustTransferOwnership or is aborted by the store, and both rows keep the role owner.
C4_NeitherCoOwnerLeaves ==
  \A s, t \in Slots :
    CoOwnerLeaves(s, t) =>
      /\ {req[s].result, req[t].result}
           \subseteq {MustTransferOwnership, DeadlockDetected, FeatureNotSupported}
      /\ role[req[s].org][req[s].caller] = "owner"
      /\ role[req[s].org][req[t].caller] = "owner"

\* the two calls overlapped: each held its own row when it asked for the other's
C4_Witness ==
  \E s, t \in Slots :
    /\ CoOwnerLeaves(s, t)
    /\ req[s].result = DeadlockDetected /\ req[t].result = MustTransferOwnership

\* C5: two leaveOrganization calls by two owners of the same organization never both
\* succeed, and no organization is left with membership rows and no owner.
C5_NeverBothLeave ==
  /\ \A s, t \in Slots :
       (/\ s # t /\ Finished(s, "leave") /\ Finished(t, "leave")
        /\ req[s].org = req[t].org /\ req[s].caller # req[t].caller
        /\ req[s].tRole = "owner" /\ req[t].tRole = "owner")
         => ~(req[s].result = Ok /\ req[t].result = Ok)
  /\ \A o \in OrgIds : MemberRows(o) = {} \/ OwnerRows(o) # {}

C5_Witness ==
  \E s, t \in Slots :
    /\ CoOwnerLeaves(s, t)
    /\ req[s].result = MustTransferOwnership /\ req[t].result = MustTransferOwnership
    /\ Cardinality(OwnerRows(req[s].org)) = 2

C7_OwnerWithOthersRejected ==
  [][\A s \in Slots :
       (/\ req[s].op = "leave" /\ req[s].pc = "lv_count"
        /\ Cardinality(MemberRows(req[s].org)) > 1
        /\ req'[s] # req[s])
         => (/\ req'[s].pc = "done" /\ req'[s].result = MustTransferOwnership
             /\ role' = role /\ profile' = profile)]_vars

\* ------------------------------------------------------------------ C8
\* C8: a finished leaveOrganization call by the sole owner of a one-member organization
\* succeeded, the organization has no membership row and the caller's profile does not
\* point at it.
C8_SoleOwnerLeaves ==
  \A s \in Slots :
    (/\ Finished(s, "leave") /\ req[s].tRole = "owner"
     /\ MemberRows(req[s].org) \subseteq {req[s].caller})
      => (/\ req[s].result = Ok
          /\ MemberRows(req[s].org) = {}
          /\ profile[req[s].caller] # req[s].org)

\* ------------------------------------------------------------------ C9
\* C9: a finished removeMember call by an owner on another principal's membership row
\* succeeded and the row is gone, whatever the target's role.
C9_OwnerRemovesAnyOther ==
  \A s \in Slots :
    (/\ Finished(s, "remove") /\ req[s].user # req[s].caller
     /\ req[s].tRole # None
     /\ role[req[s].org][req[s].caller] = "owner")
      => (req[s].result = Ok /\ role[req[s].org][req[s].user] = None)

\* ------------------------------------------------------------------ C10
\* the step that ends session s's removeMember call, on another principal's existing row
RemoveEnds(s) ==
  /\ req[s].pc # "done" /\ req'[s].op = "remove" /\ req'[s].pc = "done"
  /\ req'[s].user \in Users /\ req'[s].user # req'[s].caller
  /\ role[req'[s].org][req'[s].user] # None

\* C10: removeMember on another principal's row: a member caller ends with
\* NotAuthorized; an admin caller is rejected when the target is an admin or an owner;
\* an admin caller succeeds when the target is a member and exactly that row is
\* deleted; every call that does not succeed leaves all membership rows as they were.
C10_RemovalMatrix ==
  [][\A s \in Slots :
       LET r == req'[s]
           callerRole == role[r.org][r.caller]
           targetRole == role[r.org][r.user]
       IN /\ (RemoveEnds(s) /\ callerRole = "member")
               => (r.result = NotAuthorized /\ role' = role)
          /\ (RemoveEnds(s) /\ callerRole = "admin" /\ targetRole \in {"admin", "owner"})
               => (r.result \notin {Ok, Pending} /\ role' = role)
          /\ (RemoveEnds(s) /\ callerRole = "admin" /\ targetRole = "member")
               => (r.result = Ok /\ role' = [role EXCEPT ![r.org][r.user] = None])
          /\ (req[s].pc # "done" /\ r.op = "remove" /\ r.pc = "done" /\ r.result # Ok)
               => role' = role]_vars

C10_Witness ==
  \E s \in Slots :
    /\ Finished(s, "remove") /\ req[s].result = Ok
    /\ req[s].user # req[s].caller /\ req[s].tRole = "member"
    /\ role[req[s].org][req[s].caller] = "admin"
    /\ role[req[s].org][req[s].user] = None

\* ------------------------------------------------------------------ C11
\* the step that ends session s's updateMemberRole call, on an existing membership row
UpdateEnds(s) ==
  /\ req[s].pc # "done" /\ req'[s].op = "updateRole" /\ req'[s].pc = "done"
  /\ req'[s].user \in Users
  /\ role[req'[s].org][req'[s].user] # None

C12_PromotionKeepsOwner ==
  [][\A s \in Slots :
       LET r == req'[s]
       IN (/\ UpdateEnds(s) /\ r.user # r.caller /\ r.newRole = "owner"
           /\ role[r.org][r.caller] = "owner")
            => (/\ r.result = Ok
                /\ role' = [role EXCEPT ![r.org][r.user] = "owner"]
                /\ role'[r.org][r.caller] = "owner")]_vars

C12_Witness ==
  \E s \in Slots :
    /\ Finished(s, "updateRole") /\ req[s].result = Ok
    /\ req[s].user \in Users /\ req[s].user # req[s].caller
    /\ req[s].tRole = "member" /\ req[s].newRole = "owner"
    /\ role[req[s].org][req[s].caller] = "owner"
    /\ role[req[s].org][req[s].user] = "owner"

\* ------------------------------------------------------------------ C13
\* the step that ends session s's addOrganizationMember call
AddEnds(s) == req[s].pc # "done" /\ req'[s].op = "add" /\ req'[s].pc = "done"

\* C13: an addOrganizationMember call by a caller who is neither owner nor admin of the
\* organization ends with NotAuthorized and inserts nothing; a call by an admin that
\* asks for the role owner is rejected and inserts nothing.
C13_AddAuthorization ==
  [][\A s \in Slots :
       LET r == req'[s]
           callerRole == role[r.org][r.caller]
       IN /\ (AddEnds(s) /\ callerRole \notin {"owner", "admin"})
               => (r.result = NotAuthorized /\ role' = role)
          /\ (AddEnds(s) /\ callerRole = "admin" /\ r.newRole = "owner")
               => (r.result # Ok /\ role' = role)]_vars

C15_CreateAtomic ==
  [][/\ \A o \in OrgIds :
          (orgSlug[o] = NoOrg /\ orgSlug'[o] # NoOrg)
            => \E s \in Slots :
                 /\ req'[s].op = "create" /\ req'[s].org = o /\ req'[s].slug = orgSlug'[o]
                 /\ role'[o][req'[s].caller] = "owner"
                 /\ \A u \in Users : role'[o][u] # None => u = req'[s].caller
                 /\ profile'[req'[s].caller] = o
     /\ \A s \in Slots :
          (/\ req[s].pc # "done" /\ req'[s].op = "create" /\ req'[s].pc = "done"
           /\ req'[s].result = Ok)
            => (/\ orgSlug'[req'[s].org] = req'[s].slug
                /\ role'[req'[s].org][req'[s].caller] = "owner"
                /\ profile'[req'[s].caller] = req'[s].org)]_vars

C15_Witness ==
  \E s \in Slots :
    /\ Finished(s, "create") /\ req[s].result = Ok
    /\ orgSlug[req[s].org] = req[s].slug
    /\ role[req[s].org][req[s].caller] = "owner"
    /\ profile[req[s].caller] = req[s].org

\* ------------------------------------------------------------------ C16
\* C16: of two createOrganization calls with the same slug that run side by side one
\* ends successfully and the other with SlugConflict, one organization row has the
\* slug, and the step that ends a call with SlugConflict changes no organization row,
\* no membership row and no profile.
C16_SlugRace ==
  /\ [](\A s, t \in Slots :
          (s # t /\ Finished(s, "create") /\ Finished(t, "create")
            /\ req[s].slug = req[t].slug)
           => (/\ {req[s].result, req[t].result} = {Ok, SlugConflict}
               /\ Cardinality({o \in OrgIds : orgSlug[o] = req[s].slug}) = 1))
  /\ [][\A s \in Slots :
          (req'[s].op = "create" /\ req'[s].pc = "done" /\ req'[s].result = SlugConflict)
            => (orgSlug' = orgSlug /\ role' = role /\ profile' = profile)]_vars

\* both calls have ended, the loser's caller has no profile row, no membership and the
\* store holds one organization
C16_Witness ==
  \E s, t \in Slots :
    /\ s # t /\ Finished(s, "create") /\ Finished(t, "create")
    /\ req[s].slug = req[t].slug /\ req[s].caller # req[t].caller
    /\ req[s].result = Ok /\ req[t].result = SlugConflict
    /\ profile[req[t].caller] = NoRow
    /\ \A o \in OrgIds : role[o][req[t].caller] = None
    /\ Cardinality({o \in OrgIds : orgSlug[o] # NoOrg}) = 1

\* ------------------------------------------------------------------ C17
\* the step that ends session s's deleteOrganization call
DeleteEnds(s) == req[s].pc # "done" /\ req'[s].op = "deleteOrg" /\ req'[s].pc = "done"

\* the step changes no row of any table
NothingChanges ==
  orgSlug' = orgSlug /\ role' = role /\ profile' = profile /\ todos' = todos

\* the step deletes organization o, its membership rows and its todos, clears the
\* profiles that point at it, and changes nothing else
DeletedWithDependents(o) ==
  /\ orgSlug' = [orgSlug EXCEPT ![o] = NoOrg]
  /\ role' = [role EXCEPT ![o] = NoRows]
  /\ todos' = [t \in TodoIds |-> IF todos[t].organization_id = o THEN NoTodo ELSE todos[t]]
  /\ profile' = [u \in Users |-> IF profile[u] = o THEN Null ELSE profile[u]]

\* deleteOrganization by an owner, and by a caller whose role is admin or member
DeleteByRole(s) ==
  LET r == req'[s]
      callerRole == role[r.org][r.caller]
  IN /\ (DeleteEnds(s) /\ r.result = Ok) => callerRole = "owner"
     /\ (DeleteEnds(s) /\ callerRole = "owner")
          => (r.result = Ok /\ DeletedWithDependents(r.org))
     /\ (DeleteEnds(s) /\ callerRole \in {"admin", "member"})
          => (r.result = NotAuthorized /\ NothingChanges)

C18_EndToEnd ==
  [][\A s \in Slots :
       LET r == req'[s]
       IN /\ (DeleteEnds(s) /\ role[r.org][r.caller] = "member")
               => (r.result = NotAuthorized /\ orgSlug'[r.org] = orgSlug[r.org]
                   /\ orgSlug'[r.org] # NoOrg)
          /\ (DeleteEnds(s) /\ role[r.org][r.caller] = "owner")
               => (r.result = Ok /\ orgSlug'[r.org] = NoOrg
                   /\ \A u \in Users : role'[r.org][u] = None)
          /\ (req[s].pc # "done" /\ r.op = "getOrg" /\ r.pc = "done"
                /\ orgSlug[r.org] = NoOrg)
               => r.result = NotFound
          /\ (req[s].pc # "done" /\ r.op = "getOrgBySlug" /\ r.pc = "done"
                /\ \A o \in OrgIds : orgSlug[o] # r.slug)
               => r.result = NotFound]_vars

\* the scenario has run: B, a member of acme (o1), was refused the delete; acme is gone
\* with its membership rows; B's read of acme returned NotFound
C18_Witness ==
  \E s, t \in Slots :
    /\ Finished(s, "deleteOrg") /\ req[s].caller = "B" /\ req[s].org = "o1"
    /\ req[s].result = NotAuthorized
    /\ t # s /\ req[t].caller = "B" /\ req[t].pc = "done" /\ req[t].result = NotFound
    /\ req[t].op \in {"getOrg", "getOrgBySlug"}
    /\ "o1" \in usedIds /\ orgSlug["o1"] = NoOrg
    /\ role["o1"]["A"] = None /\ role["o1"]["B"] = None

\* ------------------------------------------------------------------ C19
\* C19: every step that deletes the membership row of principal u in organization o
\* leaves u's profile not pointing at o.
C19_PointerCleared ==
  [][\A o \in OrgIds, u \in Users :
       (role[o][u] # None /\ role'[o][u] = None) => profile'[u] # o]_vars

\* ------------------------------------------------------------------ C20
\* C20: a setCurrentOrganization call by a caller who has a membership row in the
\* organization points the caller's profile at it and changes no other profile; a call
\* by a caller who has none ends with NotAMember and changes no profile; no step of a
\* setCurrentOrganization call changes a membership row or an organization row.
C20_SetCurrentOrganization ==
  [][\A s \in Slots :
       LET r == req'[s]
       IN /\ (req[s].pc # "done" /\ r.op = "setCurrent" /\ r.pc = "done")
               => /\ role[r.org][r.caller] # None
                       => (r.result = Ok /\ profile' = [profile EXCEPT ![r.caller] = r.org])
                  /\ role[r.org][r.caller] = None
                       => (r.result = NotAMember /\ profile' = profile)
          /\ (r.op = "setCurrent" /\ r # req[s])
               => (role' = role /\ orgSlug' = orgSlug)]_vars

\* the caller's profile pointed elsewhere (or did not exist) and now points at the
\* organization asked for
C20_Witness ==
  \E s \in Slots :
    /\ Finished(s, "setCurrent") /\ req[s].result = Ok
    /\ role[req[s].org][req[s].caller] # None
    /\ profile[req[s].caller] = req[s].org

\* ------------------------------------------------------------------ C21
\* C21: get_current_organization_id() returns the profile's current_organization_id
\* when the principal has a membership row in that organization, and NULL in every
\* other case.
C21_ActiveOrganization ==
  \A s \in Slots :
    Finished(s, "getCurrentOrg") =>
      LET p == req[s].caller
      IN req[s].cur = IF profile[p] \in OrgIds /\ role[profile[p]][p] # None
                        THEN profile[p] ELSE Null

\* ------------------------------------------------------------------ C22
\* the privilege order owner > admin > member
RoleRank(r) == IF r = "owner" THEN 3 ELSE IF r = "admin" THEN 2 ELSE IF r = "member" THEN 1 ELSE 0

\* C22: for every principal, organization and required role, has_organization_role is
\* true exactly when the principal has a membership row whose role is at least the
\* required one in the order owner > admin > member, and that is what a call returns;
\* is_organization_admin is true exactly for the roles owner and admin, and
\* is_organization_owner exactly for the role owner.
C22_RoleOrder ==
  /\ \A p \in Users, o \in OrgIds :
       /\ \A rr \in organization_role :
            has_organization_role(p, o, rr)
              <=> (role[o][p] # None /\ RoleRank(role[o][p]) >= RoleRank(rr))
       /\ is_organization_admin(p, o) <=> role[o][p] \in {"owner", "admin"}
       /\ is_organization_owner(p, o) <=> role[o][p] = "owner"
  /\ \A s \in Slots :
       Finished(s, "hasRole") =>
         (req[s].result = SqlTrue
            <=> (/\ role[req[s].org][req[s].caller] # None
                 /\ RoleRank(role[req[s].org][req[s].caller]) >= RoleRank(req[s].newRole)))

\* an admin asked for the member permission and got true
C22_Witness ==
  \E s \in Slots :
    /\ Finished(s, "hasRole") /\ req[s].result = SqlTrue
    /\ role[req[s].org][req[s].caller] = "admin" /\ req[s].newRole = "member"
    /\ ~has_organization_role(req[s].caller, req[s].org, "owner")

\* ------------------------------------------------------------------ C23
\* the step that ends a statement of session s on a todo that exists and belongs to an
\* organization in which the caller has no membership row
OutsiderEnds(s) ==
  /\ req[s].pc # "done" /\ req'[s].pc = "done"
  /\ req'[s].op \in {"todoSelect", "todoUpdate", "updateTodo", "todoDelete"}
  /\ todos[req'[s].todo] # NoTodo
  /\ todos[req'[s].todo].organization_id \in OrgIds
  /\ role[todos[req'[s].todo].organization_id][req'[s].caller] = None

\* C23: a principal who has no membership row in the organization of a todo gets no row
\* from a read of it, and the principal's update or delete of it writes nothing, also
\* when the principal is the todo's creator and has left or been removed since.
C23_OutsiderIsolation ==
  [][\A s \in Slots :
       /\ OutsiderEnds(s) => (req'[s].result # Ok /\ todos' = todos)
       /\ (req[s].pc # "done" /\ req'[s].pc = "done" /\ req'[s].op = "getTodos")
            => \A t \in req'[s].rows :
                 todos[t].organization_id \in OrgIds
                   => role[todos[t].organization_id][req'[s].caller] # None]_vars

\* the creator of an organization's todo, removed from the organization since, read it
\* and got no row
C23_Witness ==
  \E s \in Slots :
    /\ req[s].op = "todoSelect" /\ req[s].pc = "done" /\ req[s].result = NotFound
    /\ todos[req[s].todo].user_id = req[s].caller
    /\ todos[req[s].todo].organization_id = "o1"
    /\ role["o1"][req[s].caller] = None

\* ------------------------------------------------------------------ C24
\* C24: a step that moves a todo from one organization to another is an update by a
\* caller who is owner or admin of both; an update that asks for such a move by any
\* other caller does not succeed and leaves the row as it was.
C24_MoveNeedsBothAdmins ==
  [][/\ \A t \in TodoIds :
          (/\ todos[t].organization_id \in OrgIds /\ todos'[t].organization_id \in OrgIds
           /\ todos'[t].organization_id # todos[t].organization_id)
            => \E s \in Slots :
                 /\ req'[s].op = "todoUpdate" /\ req'[s].todo = t /\ req'[s].result = Ok
                 /\ role[todos[t].organization_id][req'[s].caller] \in {"owner", "admin"}
                 /\ role[todos'[t].organization_id][req'[s].caller] \in {"owner", "admin"}
     /\ \A s \in Slots :
          LET r == req'[s]
              old == todos[r.todo].organization_id
          IN (/\ req[s].pc # "done" /\ r.pc = "done" /\ r.op = "todoUpdate"
              /\ old \in OrgIds /\ r.org \in OrgIds /\ r.org # old
              /\ ~(role[old][r.caller] \in {"owner", "admin"}
                     /\ role[r.org][r.caller] \in {"owner", "admin"}))
               => (r.result # Ok /\ todos' = todos)]_vars

\* a todo has been moved from o2 to o1 by a caller who is owner or admin of both
C24_Witness ==
  \E s \in Slots :
    /\ req[s].op = "todoUpdate" /\ req[s].pc = "done" /\ req[s].result = Ok
    /\ req[s].cur = "o2" /\ req[s].org = "o1"
    /\ todos[req[s].todo].organization_id = "o1"
    /\ is_organization_admin(req[s].caller, "o1") /\ is_organization_admin(req[s].caller, "o2")

\* ------------------------------------------------------------------ C25
\* C25: a delete of a todo removes the row exactly when the caller is its creator and
\* can read it, or is owner or admin of its organization, and changes nothing
\* otherwise: a plain member does not delete another member's todo, and only the
\* creator deletes a personal todo.
C25_DeleteRule ==
  [][\A s \in Slots :
       LET r == req'[s]
           row == todos[r.todo]
           o == row.organization_id
           creator == row.user_id = r.caller
           visible == (o \in OrgIds /\ role[o][r.caller] # None) \/ (o = Null /\ creator)
           admin == o \in OrgIds /\ role[o][r.caller] \in {"owner", "admin"}
       IN (req[s].pc # "done" /\ r.pc = "done" /\ r.op = "todoDelete" /\ row # NoTodo)
            => IF (creator /\ visible) \/ admin
                 THEN r.result = Ok /\ todos' = [todos EXCEPT ![r.todo] = NoTodo]
                 ELSE r.result # Ok /\ todos' = todos]_vars

\* an admin has deleted another member's todo of the organization
C25_Witness ==
  \E s \in Slots :
    /\ req[s].op = "todoDelete" /\ req[s].pc = "done" /\ req[s].result = Ok
    /\ req[s].cur \in OrgIds /\ role[req[s].cur][req[s].caller] = "admin"
    /\ todos[req[s].todo] = NoTodo

\* ------------------------------------------------------------------ C26
\* session s's leave_organization is at its count and a row it has to lock is locked by
\* session t's leave_organization
WaitsFor(s, t) ==
  /\ s # t
  /\ req[s].op = "leave" /\ req[s].pc = "lv_count"
  /\ req[t].op = "leave" /\ req[t].org = req[s].org
  /\ \E u \in MemberRows(req[s].org) : u \in req[t].locks

\* C26: no two leaveOrganization calls wait for each other's row locks, and every call
\* that has ended has succeeded or ended with NotAMember or MustTransferOwnership.
C26_NoLeaveDeadlock ==
  /\ \A s, t \in Slots : ~(WaitsFor(s, t) /\ WaitsFor(t, s))
  /\ \A s \in Slots :
       Finished(s, "leave") => req[s].result \in {Ok, NotAMember, MustTransferOwnership}

\* ------------------------------------------------------------------ C27
\* C27: the UPDATE of an updateMemberRole call whose caller's role is admin changes no
\* membership row when the target's role at the moment of the write is admin or owner.
C27_AdminNeverDemotesAdmin ==
  [][\A s \in Slots :
       (/\ req[s].op = "updateRole" /\ req[s].pc = "ur_update" /\ req'[s].pc = "done"
        /\ req[s].user \in Users
        /\ role[req[s].org][req[s].caller] = "admin"
        /\ role[req[s].org][req[s].user] \in {"admin", "owner"})
         => role' = role]_vars

\* ------------------------------------------------------------------ C28
\* C28: when two owners' updateMemberRole calls, each demoting the other or each
\* demoting the caller, have both succeeded, the organization still has an owner.
C28_CoOwnersKeepOwner ==
  \A s, t \in Slots :
    (/\ s # t /\ Finished(s, "updateRole") /\ Finished(t, "updateRole")
     /\ req[s].result = Ok /\ req[t].result = Ok
     /\ req[s].org = req[t].org /\ req[s].caller # req[t].caller
     /\ req[s].tRole = "owner" /\ req[t].tRole = "owner"
     /\ req[s].newRole # "owner" /\ req[t].newRole # "owner"
     /\ req[s].user # req[t].user
     /\ {req[s].user, req[t].user} = {req[s].caller, req[t].caller})
      => OwnerRows(req[s].org) # {}

\* ------------------------------------------------------------------ C29
\* C29: a checkSlugAvailability call returns false whenever an organization, one the
\* caller is not a member of included, holds the slug, and true otherwise: so a
\* createOrganization with a slug it has just called available does not end with
\* SlugConflict.
C29_SlugCheckAgrees ==
  \A s \in Slots :
    Finished(s, "checkSlug") =>
      (req[s].result = SqlTrue <=> \A o \in OrgIds : orgSlug[o] # req[s].slug)

\* ------------------------------------------------------------------ C30
\* C30: an addOrganizationMember call by an owner or admin for a target who has a
\* profile row and no membership row in the organization, asking for the role admin or
\* member, succeeds whether or not the caller shares an organization with the target;
\* a call ends with PrincipalNotFound only when the target has no profile row.
C30_AddAnyProfile ==
  [][\A s \in Slots :
       LET r == req'[s]
       IN /\ (AddEnds(s) /\ r.result = PrincipalNotFound) => profile[r.user] = NoRow
          /\ (/\ AddEnds(s) /\ role[r.org][r.caller] \in {"owner", "admin"}
              /\ r.newRole \in {"admin", "member"}
              /\ profile[r.user] # NoRow /\ role[r.org][r.user] = None)
               => r.result = Ok]_vars

====
